---- MODULE Spec2Model ----
(***************************************************************************)
(* Model of the tic-tac-toe server src/app.py: the board evaluator         *)
(* check_winner, the minimax move selector ai_move / minimax, the /move    *)
(* request handler and the score ledger it updates.                        *)
(*                                                                         *)
(* Three specifications share the variables:                               *)
(*   Spec     one game played over /move from the empty board;             *)
(*   SpecReq  /move requests that submit any board with at most MaxSent    *)
(*            empty cells, by a registered or an unregistered username;    *)
(*   SpecFn   check_winner and ai_move applied as functions to any board.  *)
(***************************************************************************)
EXTENDS Integers, Sequences, FiniteSets, TLC

VARIABLES
  board,     \* the 9-cell list the calls work on: request payload, search buffer, response board
  player,    \* player_symbol: the human's symbol ("player" of the request)
  username,  \* "username" of the request
  users,     \* table users: the registered usernames
  scores,    \* table scores: username -> [wins, losses, draws]
  turn,      \* who acts next in a game, or the stage of a function call
  sent,      \* the board as it was passed to the last request or call (<<>> before any)
  winner,    \* the last value check_winner returned ("winner" of the response)
  ai_index,  \* the last value ai_move returned (NoMove for None)
  calls,     \* number of ai_move calls the last request made
  updates,   \* number of update_scores calls the last request made
  selfplay   \* TRUE while the game is the engine playing itself: the computer opened on the
             \* empty board and every cell the human side placed is ai_move's pick for its symbol

vars == <<board, player, username, users, scores, turn, sent, winner, ai_index,
          calls, updates, selfplay>>

----------------------------------------------------------------------------
(* Bounds of the model *)

MaxEmpty == 5   \* SpecFn: ai_move is called on boards with at most this many empty cells
MaxSent == 4    \* SpecReq: the first submitted board has at most this many empty cells
MaxGames == 2   \* a finished board is re-submitted while the user has fewer recorded games

----------------------------------------------------------------------------
(* Values *)

Symbols == {"X", "O"}
Cells == {"", "X", "O"}
Index == 0..8
NoneVal == "None"       \* Python's None as a check_winner result
NoMove == -1            \* Python's None as an ai_move result (best_move = None)
NegInf == -1000         \* -float("inf"): below every score, which lie in -10..10
PosInf == 1000          \* float("inf")
Usernames == {"alice", "bob"}

AllBoards == [Index -> Cells]
EmptyBoard == [i \in Index |-> ""]
EmptyCells(b) == {i \in Index : b[i] = ""}
EmptyCount(b) == Cardinality(EmptyCells(b))

(* The table of the 8 winning triples, in the order the code tries them. *)
win_positions ==
  << <<0, 1, 2>>, <<3, 4, 5>>, <<6, 7, 8>>,
     <<0, 3, 6>>, <<1, 4, 7>>, <<2, 5, 8>>,
     <<0, 4, 8>>, <<2, 4, 6>> >>

----------------------------------------------------------------------------
(* check_winner: the first triple of win_positions holding three equal     *)
(* non-empty cells decides; otherwise "draw" on a full board, else None.   *)
(* The loop over the fixed table is written out, one triple per line.      *)

(* Faulty variants of check_winner, used to test that the properties see   *)
(* its code: a table without its last triple, a table with [2, 5, 8]       *)
(* mistyped as [2, 5, 7], and the test for a full board inverted.          *)
RECURSIVE scan_lines(_, _, _)
scan_lines(b, table, k) ==
  IF k > Len(table) THEN NoneVal
  ELSE IF b[table[k][1]] # "" /\ b[table[k][1]] = b[table[k][2]] /\ b[table[k][2]] = b[table[k][3]]
       THEN b[table[k][1]]
       ELSE scan_lines(b, table, k + 1)

check_winner_short_table(b) ==
  LET w == scan_lines(b, SubSeq(win_positions, 1, 7), 1) IN
  IF w # NoneVal THEN w ELSE IF \A i \in Index : b[i] # "" THEN "draw" ELSE NoneVal

check_winner_typo(b) ==
  LET w == scan_lines(b, [win_positions EXCEPT ![6] = <<2, 5, 7>>], 1) IN
  IF w # NoneVal THEN w ELSE IF \A i \in Index : b[i] # "" THEN "draw" ELSE NoneVal

check_winner_inverted(b) ==
  LET w == scan_lines(b, win_positions, 1) IN
  IF w # NoneVal THEN w ELSE IF \E i \in Index : b[i] = "" THEN "draw" ELSE NoneVal

check_winner(b) ==
  IF b[0] # "" /\ b[0] = b[1] /\ b[1] = b[2] THEN b[0]
  ELSE IF b[3] # "" /\ b[3] = b[4] /\ b[4] = b[5] THEN b[3]
  ELSE IF b[6] # "" /\ b[6] = b[7] /\ b[7] = b[8] THEN b[6]
  ELSE IF b[0] # "" /\ b[0] = b[3] /\ b[3] = b[6] THEN b[0]
  ELSE IF b[1] # "" /\ b[1] = b[4] /\ b[4] = b[7] THEN b[1]
  ELSE IF b[2] # "" /\ b[2] = b[5] /\ b[5] = b[8] THEN b[2]
  ELSE IF b[0] # "" /\ b[0] = b[4] /\ b[4] = b[8] THEN b[0]
  ELSE IF b[2] # "" /\ b[2] = b[4] /\ b[4] = b[6] THEN b[2]
  ELSE IF \A i \in Index : b[i] # "" THEN "draw"
  ELSE NoneVal

----------------------------------------------------------------------------
(* minimax and ai_move.  The code searches on one shared list: it writes a *)
(* symbol into a cell, recurses and writes "" back.  Each operator returns *)
(* its result together with the list as the call leaves it.               *)

Max(a, b) == IF a > b THEN a ELSE b
Min(a, b) == IF a < b THEN a ELSE b

RECURSIVE minimax(_, _, _, _, _), max_loop(_, _, _, _, _, _), min_loop(_, _, _, _, _, _)

(* Faulty variants of the search: minimax that scores a board it has not   *)
(* decided 0 without searching on, minimax whose scores ignore the depth,  *)
(* and a maximizing loop that does not write "" back.                      *)
minimax_shallow(b, depth, is_maximizing, ai_symbol, player_symbol) ==
  LET w == check_winner(b) IN
  IF w = ai_symbol THEN [score |-> 10 - depth, board |-> b]
  ELSE IF w = player_symbol THEN [score |-> depth - 10, board |-> b]
  ELSE [score |-> 0, board |-> b]

minimax_no_depth(b, depth, is_maximizing, ai_symbol, player_symbol) ==
  LET w == check_winner(b) IN
  IF w = ai_symbol THEN [score |-> 10, board |-> b]
  ELSE IF w = player_symbol THEN [score |-> -10, board |-> b]
  ELSE IF w = "draw" THEN [score |-> 0, board |-> b]
  ELSE IF is_maximizing THEN max_loop(b, 0, NegInf, depth, ai_symbol, player_symbol)
  ELSE min_loop(b, 0, PosInf, depth, ai_symbol, player_symbol)

max_loop_no_erase(b, i, best_score, depth, ai_symbol, player_symbol) ==
  IF i > 8 THEN [score |-> best_score, board |-> b]
  ELSE IF b[i] # "" THEN max_loop(b, i + 1, best_score, depth, ai_symbol, player_symbol)
  ELSE LET r == minimax([b EXCEPT ![i] = ai_symbol], depth + 1, FALSE, ai_symbol, player_symbol)
       IN max_loop(r.board, i + 1, Max(r.score, best_score), depth, ai_symbol, player_symbol)

minimax(b, depth, is_maximizing, ai_symbol, player_symbol) ==
  LET w == check_winner(b) IN
  IF w = ai_symbol THEN [score |-> 10 - depth, board |-> b]
  ELSE IF w = player_symbol THEN [score |-> depth - 10, board |-> b]
  ELSE IF w = "draw" THEN [score |-> 0, board |-> b]
  ELSE IF is_maximizing THEN max_loop(b, 0, NegInf, depth, ai_symbol, player_symbol)
  ELSE min_loop(b, 0, PosInf, depth, ai_symbol, player_symbol)

(* for i in range(9) of the maximizing branch, from index i on *)
max_loop(b, i, best_score, depth, ai_symbol, player_symbol) ==
  IF i > 8 THEN [score |-> best_score, board |-> b]
  ELSE IF b[i] # "" THEN max_loop(b, i + 1, best_score, depth, ai_symbol, player_symbol)
  ELSE LET r == minimax([b EXCEPT ![i] = ai_symbol], depth + 1, FALSE, ai_symbol, player_symbol)
       IN max_loop([r.board EXCEPT ![i] = ""], i + 1, Max(r.score, best_score),
                   depth, ai_symbol, player_symbol)

(* for i in range(9) of the minimizing branch, from index i on *)
min_loop(b, i, best_score, depth, ai_symbol, player_symbol) ==
  IF i > 8 THEN [score |-> best_score, board |-> b]
  ELSE IF b[i] # "" THEN min_loop(b, i + 1, best_score, depth, ai_symbol, player_symbol)
  ELSE LET r == minimax([b EXCEPT ![i] = player_symbol], depth + 1, TRUE, ai_symbol, player_symbol)
       IN min_loop([r.board EXCEPT ![i] = ""], i + 1, Min(r.score, best_score),
                   depth, ai_symbol, player_symbol)

RECURSIVE ai_loop(_, _, _, _, _, _)

(* Faulty variants of ai_move: the comparison written >=, and the loop     *)
(* left at the first empty cell.                                           *)
ai_loop_ge(b, i, best_score, best_move, ai_symbol, player_symbol) ==
  IF i > 8 THEN [move |-> best_move, board |-> b]
  ELSE IF b[i] # "" THEN ai_loop(b, i + 1, best_score, best_move, ai_symbol, player_symbol)
  ELSE LET r == minimax([b EXCEPT ![i] = ai_symbol], 0, FALSE, ai_symbol, player_symbol)
           erased == [r.board EXCEPT ![i] = ""]
       IN IF r.score >= best_score
          THEN ai_loop(erased, i + 1, r.score, i, ai_symbol, player_symbol)
          ELSE ai_loop(erased, i + 1, best_score, best_move, ai_symbol, player_symbol)

ai_move_first(b, ai_symbol, player_symbol) ==
  [move |-> IF \E i \in Index : b[i] = ""
            THEN CHOOSE i \in Index : b[i] = "" /\ \A j \in 0..(i - 1) : b[j] # ""
            ELSE NoMove,
   board |-> b]

(* for i in range(9) of ai_move, from index i on *)
ai_loop(b, i, best_score, best_move, ai_symbol, player_symbol) ==
  IF i > 8 THEN [move |-> best_move, board |-> b]
  ELSE IF b[i] # "" THEN ai_loop(b, i + 1, best_score, best_move, ai_symbol, player_symbol)
  ELSE LET r == minimax([b EXCEPT ![i] = ai_symbol], 0, FALSE, ai_symbol, player_symbol)
           erased == [r.board EXCEPT ![i] = ""]
       IN IF r.score > best_score
          THEN ai_loop(erased, i + 1, r.score, i, ai_symbol, player_symbol)
          ELSE ai_loop(erased, i + 1, best_score, best_move, ai_symbol, player_symbol)

ai_move(b, ai_symbol, player_symbol) == ai_loop(b, 0, NegInf, NoMove, ai_symbol, player_symbol)

----------------------------------------------------------------------------
(* The score ledger *)

NoGames == [wins |-> 0, losses |-> 0, draws |-> 0]

(* Faulty variant of update_scores: wins and losses exchanged. *)
update_scores_swapped(table, name, w, player_symbol) ==
  IF name \notin DOMAIN table THEN table
  ELSE IF w = "draw" THEN [table EXCEPT ![name].draws = @ + 1]
  ELSE IF w = player_symbol THEN [table EXCEPT ![name].losses = @ + 1]
  ELSE [table EXCEPT ![name].wins = @ + 1]

(* UPDATE scores SET ... WHERE username=?: a username without a row matches nothing *)
update_scores(table, name, w, player_symbol) ==
  IF name \notin DOMAIN table THEN table
  ELSE IF w = "draw" THEN [table EXCEPT ![name].draws = @ + 1]
  ELSE IF w = player_symbol THEN [table EXCEPT ![name].wins = @ + 1]
  ELSE [table EXCEPT ![name].losses = @ + 1]

Games(table, name) == table[name].wins + table[name].losses + table[name].draws

AiSymbol(player_symbol) == IF player_symbol = "X" THEN "O" ELSE "X"

----------------------------------------------------------------------------
(* POST /move.  move_reply is the handler from its ai_move call on (the    *)
(* submitted board was not terminal); move is the whole handler.  Both     *)
(* return the response board and winner, the scores table as the request   *)
(* leaves it, and what the request called.                                 *)

move_reply(b, name, player_symbol, table) ==
  LET ai_symbol == AiSymbol(player_symbol)
      r == ai_move(b, ai_symbol, player_symbol)
      moved == IF r.move # NoMove THEN [r.board EXCEPT ![r.move] = ai_symbol] ELSE r.board
      w == check_winner(moved)
  IN [board |-> moved, winner |-> w, ai_index |-> r.move, calls |-> 1,
      scores |-> IF w # NoneVal THEN update_scores(table, name, w, player_symbol) ELSE table,
      updates |-> IF w # NoneVal THEN 1 ELSE 0]

(* Faulty variant of the handler: the check of the submitted board left out. *)
move_unchecked(b, name, player_symbol, table) == move_reply(b, name, player_symbol, table)

move(b, name, player_symbol, table) ==
  LET w == check_winner(b) IN
  IF w # NoneVal
  THEN [board |-> b, winner |-> w, ai_index |-> NoMove, calls |-> 0,
        scores |-> update_scores(table, name, w, player_symbol), updates |-> 1]
  ELSE move_reply(b, name, player_symbol, table)

(* The client posts its board: after the human's placement, at the start   *)
(* of a game the computer opens, or once more after the game has ended.    *)
Move ==
  /\ \/ turn = "server"
     \/ /\ turn = "over"
        /\ username \in DOMAIN scores
        /\ Games(scores, username) < MaxGames
  /\ \E resp \in {move(board, username, player, scores)} :
        /\ board' = resp.board
        /\ winner' = resp.winner
        /\ ai_index' = resp.ai_index
        /\ calls' = resp.calls
        /\ scores' = resp.scores
        /\ updates' = resp.updates
        /\ turn' = IF resp.winner = NoneVal THEN "human" ELSE "over"
  /\ sent' = board
  /\ UNCHANGED <<player, username, users, selfplay>>

(* The cell a second engine playing the human's symbol takes: ai_move with *)
(* the human's symbol acting and the computer's symbol as its opponent.    *)
(* It is looked up only while the game is still the engine's self-play.    *)
EnginePick == IF selfplay THEN ai_move(board, player, AiSymbol(player)).move ELSE NoMove

(* The human side puts its symbol into the empty cell i of the client's board. *)
HumanPlace(i, pick) ==
  /\ turn = "human"
  /\ board[i] = ""
  /\ board' = [board EXCEPT ![i] = player]
  /\ turn' = "server"
  /\ selfplay' = (selfplay /\ i = pick)
  /\ UNCHANGED <<player, username, users, scores, sent, winner, ai_index, calls, updates>>

HumanMove == \E pick \in {EnginePick} : \E i \in Index : HumanPlace(i, pick)

(* POST /register with a non-empty username and password *)
Register(u) ==
  /\ u \notin users
  /\ users' = users \cup {u}
  /\ scores' = [n \in DOMAIN scores \cup {u} |-> IF n = u THEN NoGames ELSE scores[n]]
  /\ UNCHANGED <<board, player, username, turn, sent, winner, ai_index, calls, updates, selfplay>>

----------------------------------------------------------------------------
(* Spec: one game from the empty board.  alice is registered; the human    *)
(* plays X or O and either side opens.                                     *)

Init ==
  /\ board = EmptyBoard
  /\ player \in Symbols
  /\ username = "alice"
  /\ users = {"alice"}
  /\ scores = [n \in {"alice"} |-> NoGames]
  /\ turn \in {"human", "server"}
  /\ sent = <<>>
  /\ winner = NoneVal
  /\ ai_index = NoMove
  /\ calls = 0
  /\ updates = 0
  /\ selfplay = (turn = "server")

Next ==
  \/ Move
  \/ HumanMove

Spec == Init /\ [][Next]_vars

----------------------------------------------------------------------------
(* SpecReq: a request submits any board with at most MaxSent empty cells,  *)
(* under the name of alice (registered) or bob (not registered at first),  *)
(* and the exchange goes on from there.                                    *)

InitReq ==
  /\ board \in {b \in AllBoards : EmptyCount(b) <= MaxSent}
  /\ player \in Symbols
  /\ username \in Usernames
  /\ users = {"alice"}
  /\ scores = [n \in {"alice"} |-> NoGames]
  /\ turn = "server"
  /\ sent = <<>>
  /\ winner = NoneVal
  /\ ai_index = NoMove
  /\ calls = 0
  /\ updates = 0
  /\ selfplay = FALSE

NextReq ==
  \/ Move
  \/ HumanMove
  \/ \E u \in Usernames : Register(u)

SpecReq == InitReq /\ [][NextReq]_vars

----------------------------------------------------------------------------
(* SpecFn: the two functions applied to boards.  Evaluate calls            *)
(* check_winner on any of the 3^9 boards, Turn calls it on a rotation or   *)
(* reflection of an evaluated board, Select calls ai_move on a board with  *)
(* at most MaxEmpty empty cells, for either assignment of the two symbols. *)

(* The 7 rotations and reflections of the grid other than the identity:    *)
(* cell i of the turned board is cell Symmetries[k][i + 1] of the board.   *)
Symmetries ==
  <<
     <<6, 3, 0, 7, 4, 1, 8, 5, 2>>,
     <<8, 7, 6, 5, 4, 3, 2, 1, 0>>,
     <<2, 5, 8, 1, 4, 7, 0, 3, 6>>,
     <<2, 1, 0, 5, 4, 3, 8, 7, 6>>,
     <<8, 5, 2, 7, 4, 1, 6, 3, 0>>,
     <<6, 7, 8, 3, 4, 5, 0, 1, 2>>,
     <<0, 3, 6, 1, 4, 7, 2, 5, 8>>
  >>

Apply(k, b) == [i \in Index |-> b[Symmetries[k][i + 1]]]

ExampleBoard == [i \in Index |-> IF i \in {0, 1} THEN "X" ELSE IF i \in {3, 4} THEN "O" ELSE ""]

InitFn ==
  /\ board \in AllBoards
  /\ player = "X"
  /\ username = "alice"
  /\ users = {}
  /\ scores = <<>>
  /\ turn = "input"
  /\ sent = <<>>
  /\ winner = NoneVal
  /\ ai_index = NoMove
  /\ calls = 0
  /\ updates = 0
  /\ selfplay = FALSE

Evaluate ==
  /\ turn = "input"
  /\ winner' = check_winner(board)
  /\ sent' = board
  /\ turn' = "evaluated"
  /\ UNCHANGED <<board, player, username, users, scores, ai_index, calls, updates, selfplay>>

Turn(k) ==
  /\ turn = "evaluated"
  /\ board' = Apply(k, board)
  /\ winner' = check_winner(board')
  /\ sent' = board
  /\ turn' = "turned"
  /\ UNCHANGED <<player, username, users, scores, ai_index, calls, updates, selfplay>>

(* ai_move(board, ai_symbol, player_symbol) with player_symbol = p *)
Select(p) ==
  /\ turn = "evaluated"
  /\ EmptyCount(board) <= MaxEmpty
  /\ player' = p
  /\ \E r \in {ai_move(board, AiSymbol(p), p)} :
        /\ ai_index' = r.move
        /\ board' = r.board
  /\ sent' = board
  /\ calls' = 1
  /\ turn' = "selected"
  /\ UNCHANGED <<username, users, scores, winner, updates, selfplay>>

NextFn ==
  \/ Evaluate
  \/ \E k \in 1..Len(Symmetries) : Turn(k)
  \/ \E p \in Symbols : Select(p)

SpecFn == InitFn /\ [][NextFn]_vars

----------------------------------------------------------------------------
(* Properties.  The helpers below read the board through win_positions.    *)

Other(s) == IF s = "X" THEN "O" ELSE "X"
Complete(b, k, s) == \A j \in 1..3 : b[win_positions[k][j]] = s
HasLine(b, s) == \E k \in 1..Len(win_positions) : Complete(b, k, s)
Full(b) == \A i \in Index : b[i] # ""
Terminal(b) == HasLine(b, "X") \/ HasLine(b, "O") \/ Full(b)
Count(b, s) == Cardinality({i \in Index : b[i] = s})
SetMax(S) == CHOOSE m \in S : \A n \in S : n <= m
SetMin(S) == CHOOSE m \in S : \A n \in S : m <= n
(* the symbol on the first complete triple of the table *)
FirstLineSymbol(b) ==
  LET k == SetMin({j \in 1..Len(win_positions) : Complete(b, j, "X") \/ Complete(b, j, "O")})
  IN b[win_positions[k][1]]
(* a /move response has arrived and the client has not placed since *)
Responded == turn \in {"human", "over"} /\ sent # <<>>

(* C1: in a game from the empty board in which the human places anywhere   *)
(* and the computer's moves are those of the /move handler, no board ever  *)
(* makes check_winner return the human's symbol.                           *)
C1_Unbeatable == check_winner(board) # player /\ winner # player

(* a game the human opened, lost with the computer's last move *)
C1_Witness ==
  /\ turn = "over"
  /\ winner = AiSymbol(player)
  /\ calls = 1
  /\ Count(board, player) = Count(board, AiSymbol(player))

(* C2: while both sides follow ai_move from the empty board no side ever   *)
(* wins, a placement stays possible until the board is terminal, and the   *)
(* finished game is a draw.                                                *)
C2_SelfPlayDraws ==
  selfplay =>
    /\ check_winner(board) \notin Symbols
    /\ turn = "human" => EmptyCells(board) # {} /\ check_winner(board) = NoneVal
    /\ turn = "over" => winner = "draw" /\ check_winner(board) = "draw"

C2_Witness == selfplay /\ turn = "over" /\ winner = "draw" /\ Full(board)

(* A step of Move: the only step from "server" or "over" that leaves the   *)
(* users table alone.                                                      *)
MoveStep == turn \in {"server", "over"} /\ turn' \in {"human", "over"} /\ users' = users

(* the counter a final outcome w is booked on, for the human's symbol s *)
Booked(w, s) == IF w = "draw" THEN "draws" ELSE IF w = s THEN "wins" ELSE "losses"
Plus(row, field) ==
  [wins   |-> row.wins   + (IF field = "wins" THEN 1 ELSE 0),
   losses |-> row.losses + (IF field = "losses" THEN 1 ELSE 0),
   draws  |-> row.draws  + (IF field = "draws" THEN 1 ELSE 0)]
NeverLess ==
  \A n \in DOMAIN scores :
    /\ n \in DOMAIN scores'
    /\ scores'[n].wins >= scores[n].wins
    /\ scores'[n].losses >= scores[n].losses
    /\ scores'[n].draws >= scores[n].draws

(* C3 as stated: every /move request that ends on a terminal outcome makes *)
(* one score update that adds exactly 1 to exactly one counter of the      *)
(* request's user (wins, losses or draws by the outcome) and changes       *)
(* nothing else; a request that ends in progress changes nothing; no       *)
(* counter ever goes down.                                                 *)
C3_Original ==
  [][/\ NeverLess
     /\ MoveStep =>
          /\ updates' = (IF winner' = NoneVal THEN 0 ELSE 1)
          /\ winner' = NoneVal => scores' = scores
          /\ winner' # NoneVal =>
               /\ username \in DOMAIN scores
               /\ scores' = [scores EXCEPT ![username] = Plus(@, Booked(winner', player))]]_vars

(* C3, amended: the same for a username that has a row in the scores       *)
(* table; for a username without a row the one update matches no row and   *)
(* the table stays as it was.                                              *)
C3_OneUpdate ==
  [][/\ NeverLess
     /\ MoveStep =>
          /\ updates' = (IF winner' = NoneVal THEN 0 ELSE 1)
          /\ winner' = NoneVal => scores' = scores
          /\ winner' # NoneVal /\ username \in DOMAIN scores =>
               scores' = [scores EXCEPT ![username] = Plus(@, Booked(winner', player))]
          /\ winner' # NoneVal /\ username \notin DOMAIN scores => scores' = scores]_vars

(* a loss booked after the computer's winning move *)
C3_Witness ==
  /\ Responded
  /\ updates = 1
  /\ calls = 1
  /\ winner = AiSymbol(player)
  /\ username \in DOMAIN scores
  /\ scores[username].losses = 1

(* C10: the handler calls ai_move only when the submitted board is not     *)
(* terminal; the index returned is then a cell that was empty and the      *)
(* response board is the submitted board with the computer's symbol in     *)
(* that one cell.  A terminal submitted board comes back unchanged and no  *)
(* move is made.                                                           *)
C10_MoveOnlyInProgress ==
  Responded =>
    IF Terminal(sent)
    THEN calls = 0 /\ board = sent
    ELSE /\ calls = 1
         /\ ai_index \in Index
         /\ sent[ai_index] = ""
         /\ board = [sent EXCEPT ![ai_index] = AiSymbol(player)]

C10_Witness ==
  /\ Responded
  /\ ~Terminal(sent)
  /\ calls = 1
  /\ ai_index \in Index
  /\ board # sent
  /\ EmptyCount(sent) = MaxSent

(* C4 as stated: a board holding a complete line of symbol S evaluates to  *)
(* S, empty cells or not.                                                  *)
C4_Original ==
  turn = "evaluated" => \A s \in Symbols : HasLine(board, s) => winner = s

(* C4, amended: a board holding a complete line of S and none of the other *)
(* symbol evaluates to S, empty cells or not; a board holding lines of     *)
(* both symbols evaluates to the symbol of the first complete triple of    *)
(* the table.                                                              *)
C4_LineWins ==
  turn = "evaluated" =>
    /\ \A s \in Symbols : HasLine(board, s) /\ ~HasLine(board, Other(s)) => winner = s
    /\ HasLine(board, "X") /\ HasLine(board, "O") => winner = FirstLineSymbol(board)

C4_Witness ==
  /\ turn = "evaluated"
  /\ HasLine(board, "O")
  /\ ~HasLine(board, "X")
  /\ ~Full(board)
  /\ winner = "O"

(* C5: a board without a complete line evaluates to "draw" when no cell is *)
(* empty and to None when one is; every board gets one of the outcomes     *)
(* X, O, "draw", None.                                                     *)
C5_DrawOrInProgress ==
  turn = "evaluated" =>
    /\ winner \in Symbols \cup {"draw", NoneVal}
    /\ ~HasLine(board, "X") /\ ~HasLine(board, "O") =>
         winner = (IF Full(board) THEN "draw" ELSE NoneVal)

C5_Witness ==
  /\ turn = "evaluated"
  /\ Full(board)
  /\ ~HasLine(board, "X")
  /\ ~HasLine(board, "O")
  /\ winner = "draw"

(* C8 as stated: a rotated or reflected board evaluates to what the board  *)
(* evaluates to.                                                           *)
C8_Original == turn = "turned" => winner = check_winner(sent)

(* C8, amended: the same for boards on which at most one symbol has a      *)
(* complete line.                                                          *)
C8_Symmetric ==
  turn = "turned" /\ ~(HasLine(sent, "X") /\ HasLine(sent, "O")) => winner = check_winner(sent)

C8_Witness ==
  /\ turn = "turned"
  /\ board # sent
  /\ HasLine(sent, "X")
  /\ ~HasLine(sent, "O")
  /\ ~Full(sent)
  /\ winner = "X"

(* The score the specification gives a board: 10 - depth when the acting   *)
(* symbol a has won, depth - 10 when the opponent o has, 0 for a draw,     *)
(* else the greatest (a to move) or least (o to move) score of the boards  *)
(* one placement on.                                                       *)
RECURSIVE Value(_, _, _, _, _)
Value(b, depth, a_moves, a, o) ==
  LET w == check_winner(b) IN
  IF w = a THEN 10 - depth
  ELSE IF w = o THEN depth - 10
  ELSE IF w = "draw" THEN 0
  ELSE LET next == {Value([b EXCEPT ![i] = IF a_moves THEN a ELSE o], depth + 1, ~a_moves, a, o) :
                      i \in EmptyCells(b)}
       IN IF a_moves THEN SetMax(next) ELSE SetMin(next)

(* the lowest empty cell among those of greatest score *)
BestCell(b, a, o) ==
  LET scored == {<<i, Value([b EXCEPT ![i] = a], 0, FALSE, a, o)>> : i \in EmptyCells(b)}
      best == SetMax({c[2] : c \in scored})
  IN SetMin({c[1] : c \in {d \in scored : d[2] = best}})

(* C6: on a board that is not terminal ai_move returns the lowest index    *)
(* among the empty cells whose placement has the greatest minimax score.   *)
C6_LowestBest ==
  turn = "selected" /\ ~Terminal(sent) => ai_index = BestCell(sent, AiSymbol(player), player)

(* the best cell is not simply the first empty one *)
C6_Witness ==
  /\ turn = "selected"
  /\ ~Terminal(sent)
  /\ EmptyCount(sent) = MaxEmpty
  /\ ai_index \in Index
  /\ ai_index # SetMin(EmptyCells(sent))

(* the empty cells that complete a line of s *)
WinningCells(b, s) == {i \in EmptyCells(b) : HasLine([b EXCEPT ![i] = s], s)}

(* C7: when the acting symbol can complete a line at once, ai_move returns *)
(* the lowest such cell; on [X,X,"",O,O,"","","",""] with X acting it      *)
(* returns 2.                                                              *)
C7_TakesWin ==
  turn = "selected" =>
    /\ ~Terminal(sent) /\ WinningCells(sent, AiSymbol(player)) # {} =>
         ai_index = SetMin(WinningCells(sent, AiSymbol(player)))
    /\ sent = ExampleBoard /\ player = "O" => ai_index = 2

C7_Witness ==
  /\ turn = "selected"
  /\ sent = ExampleBoard
  /\ player = "O"
  /\ ai_index = 2

(* C9: ai_move returns with the caller's list as it was passed, and so     *)
(* does minimax, called as ai_move calls it (depth 0, minimizing) and as   *)
(* the search calls it one level down (depth 1, maximizing).               *)
C9_BoardRestored ==
  turn = "selected" =>
    /\ board = sent
    /\ minimax(sent, 0, FALSE, AiSymbol(player), player).board = sent
    /\ minimax(sent, 1, TRUE, AiSymbol(player), player).board = sent

C9_Witness ==
  /\ turn = "selected"
  /\ ~Terminal(sent)
  /\ EmptyCount(sent) = MaxEmpty
  /\ ai_index \in Index
  /\ board = sent

====
